---- MODULE Spec2Model ----
(***************************************************************************)
(* A model of TeensyThreads.cpp: the thread table, the scheduler           *)
(* (getNextThread), the tick and supervisor-call entry points, the thread  *)
(* lifecycle API and the Mutex.  One CPU: only the slot current_thread     *)
(* executes thread code; the tick interrupt may fire between any two       *)
(* steps of thread code.                                                   *)
(***************************************************************************)
EXTENDS Integers, Sequences, FiniteSets, TLC

\* ---------------------------------------------------------------- constants
MAX_THREADS == 8

\* thread[i].flags
EMPTY == "EMPTY"
RUNNING == "RUNNING"
ENDED == "ENDED"
SUSPENDED == "SUSPENDED"

\* currentActive
STOPPED == "STOPPED"
STARTED == "STARTED"
FIRST_RUN == "FIRST_RUN"

\* ------------------------------------------------------------------- bounds
\* the default time slice (Threads::DEFAULT_TICKS, set by setDefaultTimeSlice)
DEFAULT_TICKS == 1
\* threads alive at once in the lifecycle specifications
MaxLive == 2
\* the boost level the lifecycle specification passes to setPriority
Level == 2
\* successful calls of addThread in the allocation specification
MaxAdds == 8
\* slots that are ENDED at once in the allocation specification
MaxEnded == 1
\* worker threads the main thread adds in the mutex specification
NumWorkers == 1
\* threads besides the main thread in the deadline specification
NumTimed == 1
\* threads besides the main thread in the contention specification
NumContenders == 2
\* increments of the shared counter each thread makes
MaxIter == 2
\* lock() is called with timeout_ms in 0 .. MaxTimeout
MaxTimeout == 1
\* Suspend guards and stop() calls nested at once
MaxDepth == 2

Slots == 0 .. (MAX_THREADS - 1)

VARIABLES
    thread,                 \* thread[i] = [flags, ticks, priority]
    current_thread,
    thread_count,
    currentActive,
    currentCount,
    state,                  \* Mutex::state
    waitthread,             \* Mutex::waitthread
    waitcount,              \* Mutex::waitcount
    pc,                     \* pc[i]: where thread i's code stands
    p,                      \* p[i]: the local that holds stop()'s result
    timeout_ms,             \* timeout_ms[i]: the argument of thread i's lock()
    elapsed,                \* elapsed[i]: systick_millis_count - start, the one
                            \* use lock() makes of the millisecond counter, for
                            \* a thread i in lock()'s loop
    counter,                \* the counter the mutex protects
    tmp,                    \* tmp[i]: the value of counter thread i read
    iter,                   \* iter[i]: the increments thread i has made
    last,                   \* history: what the last step did
    woke,                   \* history: the waiter unlock() has just restarted
    waited,                 \* history: the ticks with scheduling active since
                            \* the waiter parked itself
    save_state,             \* the Suspend guards alive and the stop() calls not
                            \* yet undone, the innermost first: for each its
                            \* kind, the state it saved and the thread it is in
    outer,                  \* history: of the outermost guard, the state it
                            \* found, the depth reached under it and whether
                            \* a tick at the end of a slice fired under it
    wait_id,                \* wait_id[i]: the argument id of thread i's wait()
    ran,                    \* history: ran[i], for a thread i inside wait(),
                            \* whether the target's flags have been RUNNING
                            \* at any moment since the call
    selHist,                \* history: the slots selected since the thread
                            \* table last changed
    oplog                   \* history: what the addThread and kill calls so
                            \* far returned, while they are those of Scenario

kernel == <<thread, current_thread, thread_count, currentActive, currentCount>>
mutex == <<state, waitthread, waitcount>>
locals == <<pc, p, timeout_ms, elapsed>>
work == <<counter, tmp, iter>>
history == <<selHist, oplog>>
guards == <<save_state, outer>>
waits == <<wait_id, ran>>
vars == <<kernel, mutex, locals, work, last, woke, waited, guards, waits, history>>

None == [op |-> "none"]
NoGuard == [s |-> "none", deep |-> 0, ticked |-> FALSE]

\* ------------------------------------------------------------ construction
ThreadsInit ==
    /\ thread = [i \in Slots |->
                   IF i = 0
                   THEN [flags |-> RUNNING, ticks |-> DEFAULT_TICKS, priority |-> 0]
                   ELSE [flags |-> EMPTY, ticks |-> 0, priority |-> 0]]
    /\ current_thread = 0
    /\ thread_count = 0
    /\ currentCount = DEFAULT_TICKS
    /\ currentActive = FIRST_RUN

MutexInit ==
    /\ state = 0
    /\ waitthread = -1
    /\ waitcount = 0

Init ==
    /\ ThreadsInit
    /\ MutexInit
    /\ pc = [i \in Slots |-> "user"]
    /\ p = [i \in Slots |-> STOPPED]
    /\ timeout_ms = [i \in Slots |-> 0]
    /\ elapsed = [i \in Slots |-> 0]
    /\ counter = 0
    /\ tmp = [i \in Slots |-> 0]
    /\ iter = [i \in Slots |-> 0]
    /\ last = None
    /\ woke = -1
    /\ waited = 0
    /\ save_state = <<>>
    /\ outer = NoGuard
    /\ wait_id = [i \in Slots |-> 0]
    /\ ran = [i \in Slots |-> FALSE]
    /\ selHist = <<>>
    /\ oplog = <<>>

\* ---------------------------------------------------------------- scheduler
\* The priority scan of getNextThread: the first slot with a priority, taken
\* only while the outgoing thread's flags are RUNNING; -1 when there is none.
PriorityScan(th, cur) ==
    IF th[cur].flags = RUNNING /\ \E i \in Slots : th[i].priority # 0
    THEN CHOOSE i \in Slots :
            /\ th[i].priority # 0
            /\ \A j \in Slots : j < i => th[j].priority = 0
    ELSE -1

\* a round-robin loop that does not test the flags
SkipFlagsRoundRobin(th, cur) == IF cur + 1 >= MAX_THREADS THEN 0 ELSE cur + 1

\* The round-robin loop of getNextThread, entered with current_thread = cur.
RECURSIVE RoundRobin(_, _)
RoundRobin(th, cur) ==
    IF cur + 1 >= MAX_THREADS THEN 0
    ELSE IF th[cur + 1].flags = RUNNING THEN cur + 1
    ELSE RoundRobin(th, cur + 1)

\* the tick budget getNextThread publishes for a slot the priority scan chose
BoostCount(th, i) == th[i].ticks

getNextThread ==
    LET pt == PriorityScan(thread, current_thread)
        nx == IF pt # -1 THEN pt ELSE RoundRobin(thread, current_thread)
        cnt == IF pt # -1 THEN BoostCount(thread, pt) ELSE thread[nx].ticks
    IN  /\ current_thread' = nx
        /\ currentCount' = cnt
        /\ thread' = IF pt # -1 THEN [thread EXCEPT ![pt].priority = 0] ELSE thread
        /\ last' = [op |-> "select", from |-> current_thread, to |-> nx,
                    boost |-> pt # -1, th |-> thread, count |-> cnt,
                    woke |-> woke]

NoSwitch ==
    /\ UNCHANGED <<thread, current_thread, currentCount>>
    /\ last' = None

\* context_switch, entered from the tick: nothing while scheduling is stopped,
\* else one tick of the running slice, and a switch when the slice is used up.
context_switch ==
    IF currentActive = STOPPED THEN NoSwitch
    ELSE IF currentCount = 0 THEN getNextThread
    ELSE /\ currentCount' = currentCount - 1
         /\ UNCHANGED <<thread, current_thread>>
         /\ last' = None

\* the labels of lock()'s loop, where start has been read
InLoop == {"lock_loop", "lock_try2", "lock_timeout", "lock_check", "lock_park",
           "lock_suspend", "lock_yield"}

\* the labels of wait()'s loop, where start has been read
InWait == {"wait_timeout", "wait_read", "wait_yield"}

\* systick_millis_count++ as lock() and wait() see it: one more millisecond
\* since start for every thread in the loop of either.  Past cap, which is above every
\* deadline, the count stays: lock() only compares it with the deadline.
Advance(cap) ==
    elapsed' = [i \in Slots |->
                  IF pc[i] \in InLoop \cup InWait /\ elapsed[i] < cap
                  THEN elapsed[i] + 1 ELSE elapsed[i]]

\* The ticks a parked waiter has waited through with scheduling active, up
\* to wcap.
Waiting(wcap) ==
    waited' = IF waitthread # -1 /\ currentActive # STOPPED /\ waited < wcap
              THEN waited + 1 ELSE waited

\* a tick that does not read currentActive
UngatedTick(cap, wcap) ==
    /\ Advance(cap)
    /\ Waiting(wcap)
    /\ IF currentCount = 0 THEN getNextThread
       ELSE /\ currentCount' = currentCount - 1
            /\ UNCHANGED <<thread, current_thread>>
            /\ last' = None
    /\ UNCHANGED <<thread_count, currentActive, mutex, pc, p, timeout_ms, work, woke>>

\* systick_isr
Tick(cap, wcap) ==
    /\ Advance(cap)
    /\ Waiting(wcap)
    /\ context_switch
    /\ UNCHANGED <<thread_count, currentActive, mutex, pc, p, timeout_ms, work, woke>>

\* context_switch_direct, entered from svcall_isr for yield()
context_switch_direct ==
    IF currentActive = STOPPED THEN NoSwitch ELSE getNextThread

\* ------------------------------------------------------------ start / stop
\* start()'s default argument, prev_state = -1
NoPrev == "-1"

\* a start() that ignores its argument
StartIgnoresPrev(prev_state) == STARTED

start(prev_state) == IF prev_state = NoPrev THEN STARTED ELSE prev_state

\* the running thread's code is at label l
At(l) == pc[current_thread] = l
Goto(l) == pc' = [pc EXCEPT ![current_thread] = l]

\* int p = threads.stop(); and on to label l.  p[i] is STOPPED while thread i
\* is in no function that holds one.
stop(l) ==
    /\ p' = [p EXCEPT ![current_thread] = currentActive]
    /\ currentActive' = STOPPED
    /\ Goto(l)

\* ------------------------------------------------------------------- yield
Yield ==
    /\ At("user")
    /\ context_switch_direct
    /\ UNCHANGED <<thread_count, currentActive, mutex,
                   locals, work, woke, waited>>

\* ------------------------------------------------------- lifecycle calls
\* a test that takes only the slots never used
OnlyEmptyIsFree(th, i) == th[i].flags = EMPTY

\* a slot addThread may take
IsFree(th, i) == th[i].flags = ENDED \/ th[i].flags = EMPTY

\* the first slot addThread's loop finds free, 0 when the loop falls through
FreeSlot(th) ==
    IF \E i \in 1 .. (MAX_THREADS - 1) : IsFree(th, i)
    THEN CHOOSE i \in 1 .. (MAX_THREADS - 1) :
            /\ IsFree(th, i)
            /\ \A j \in 1 .. (i - 1) : ~IsFree(th, j)
    ELSE 0

\* addThread: int old_state = stop();
AddThreadStop ==
    /\ At("user")
    /\ stop("addThread")
    /\ last' = None
    /\ UNCHANGED <<thread, current_thread, thread_count, currentCount,
                   mutex, timeout_ms, elapsed, work,
                   woke, waited>>

\* addThread: the loop over the slots, and the return
AddThreadBody ==
    LET i == FreeSlot(thread)
        old_state == p[current_thread]
    IN  /\ At("addThread")
        /\ IF i # 0
           THEN /\ thread' = [thread EXCEPT ![i] =
                      [flags |-> RUNNING, ticks |-> DEFAULT_TICKS, priority |-> 0]]
                /\ thread_count' = thread_count + 1
                /\ currentActive' = IF old_state \in {STARTED, FIRST_RUN}
                                    THEN start(NoPrev) ELSE old_state
                \* the new thread starts at its entry
                /\ pc' = [pc EXCEPT ![current_thread] = "user", ![i] = "user"]
                /\ p' = [p EXCEPT ![current_thread] = STOPPED, ![i] = STOPPED]
                /\ timeout_ms' = [timeout_ms EXCEPT ![i] = 0]
                /\ elapsed' = [elapsed EXCEPT ![i] = 0]
                /\ tmp' = [tmp EXCEPT ![i] = 0]
                /\ iter' = [iter EXCEPT ![i] = 0]
                /\ last' = [op |-> "addThread", ret |-> i, th |-> thread,
                            count |-> thread_count, active |-> old_state]
           ELSE /\ currentActive' = IF old_state = STARTED
                                    THEN start(NoPrev) ELSE currentActive
                /\ Goto("user")
                /\ last' = [op |-> "addThread", ret |-> -1, th |-> thread,
                            count |-> thread_count, active |-> old_state]
                /\ p' = [p EXCEPT ![current_thread] = STOPPED]
                /\ UNCHANGED <<thread, thread_count, timeout_ms, elapsed,
                               tmp, iter>>
        /\ UNCHANGED <<current_thread, currentCount, mutex,
                       counter, woke, waited>>

SetFlags(id, f) ==
    /\ At("user")
    /\ thread' = [thread EXCEPT ![id].flags = f]
    /\ UNCHANGED <<current_thread, thread_count, currentActive, currentCount,
                   mutex, locals, work, woke, waited>>

kill(id) == SetFlags(id, ENDED) /\ last' = [op |-> "kill", id |-> id]
suspend(id) == SetFlags(id, SUSPENDED) /\ last' = None
restart(id) == SetFlags(id, RUNNING) /\ last' = None

setPriority(id, level) ==
    /\ At("user")
    /\ thread' = [thread EXCEPT ![IF id = -1 THEN current_thread ELSE id].priority = level]
    /\ last' = None
    /\ UNCHANGED <<current_thread, thread_count, currentActive, currentCount,
                   mutex, locals, work, woke, waited>>

\* del_process: int old_state = threads.stop();
DelProcessStop ==
    /\ At("user")
    /\ current_thread # 0
    /\ stop("del_process")
    /\ last' = None
    /\ UNCHANGED <<thread, current_thread, thread_count, currentCount,
                   mutex, timeout_ms, elapsed, work,
                   woke, waited>>

\* del_process: thread_count--; me->flags = ENDED; start(old_state); while(1);
DelProcessBody ==
    /\ At("del_process")
    /\ thread_count' = thread_count - 1
    /\ thread' = [thread EXCEPT ![current_thread].flags = ENDED]
    /\ currentActive' = start(p[current_thread])
    /\ p' = [p EXCEPT ![current_thread] = STOPPED]
    /\ Goto("ended")
    /\ last' = None
    /\ UNCHANGED <<current_thread, currentCount, mutex,
                   timeout_ms, elapsed, work, woke, waited>>

\* ------------------------------------------------- Suspend, stop and start
\* the value Suspend() writes to currentActive
SuspendValue == STOPPED

\* what one more guard of kind k records
Saved(k) == [kind |-> k, prev |-> currentActive, who |-> current_thread]

\* the running thread may nest a guard: none is alive, or the innermost is its
Nestable == IF save_state = <<>> THEN TRUE ELSE Head(save_state).who = current_thread

GuardStep(k, v) ==
    /\ At("user")
    /\ Nestable
    /\ save_state' = <<Saved(k)>> \o save_state
    /\ currentActive' = v
    /\ outer' = IF save_state = <<>>
                THEN [s |-> currentActive, deep |-> 1, ticked |-> FALSE]
                ELSE [outer EXCEPT !.deep = IF Len(save_state) + 1 > @
                                            THEN Len(save_state) + 1 ELSE @]
    /\ last' = None
    /\ UNCHANGED <<thread, current_thread, thread_count, currentCount,
                   mutex, locals, work, woke, waited, history>>

\* Suspend::Suspend(): save_state = currentActive; currentActive = 0;
SuspendCtor == GuardStep("Suspend", SuspendValue)

\* int old_state = threads.stop(); made by the thread's own code
StopCall == GuardStep("stop", STOPPED)

\* Suspend::~Suspend() of the innermost guard: currentActive = save_state;
\* or threads.start(old_state) for the innermost stop()
Release ==
    /\ At("user")
    /\ save_state # <<>>
    /\ Head(save_state).who = current_thread
    /\ currentActive' = IF Head(save_state).kind = "Suspend"
                        THEN Head(save_state).prev
                        ELSE start(Head(save_state).prev)
    /\ save_state' = Tail(save_state)
    /\ last' = [op |-> "release", kind |-> Head(save_state).kind]
    /\ UNCHANGED <<thread, current_thread, thread_count, currentCount,
                   mutex, locals, work, woke, waited, outer, history>>

\* ------------------------------------------------------------------- Mutex
\* a try_lock that does not test the mutex
AlwaysUnlocked(s) == TRUE

\* try_lock's test of the mutex
IsUnlocked(s) == s = 0

\* a deadline test that fires one millisecond early
TimedOutEarly(t_ms, el) == t_ms # 0 /\ el >= t_ms

\* lock's test of its deadline, el being systick_millis_count - start
TimedOut(t_ms, el) == t_ms # 0 /\ el > t_ms

\* lock's test for parking itself
NoWaiter(w) == w = -1

\* the code between a successful lock or try_lock and the end of unlock
Holding == {"locked", "cs_write", "cs_done", "unlock"}

\* lock(timeout_ms): the fast path's try_lock: int p = threads.stop();
LockCall(t_ms) ==
    /\ At("user")
    /\ stop("lock_try1")
    /\ timeout_ms' = [timeout_ms EXCEPT ![current_thread] = t_ms]
    /\ last' = None
    /\ UNCHANGED <<thread, current_thread, thread_count, currentCount,
                   mutex, elapsed, work, woke, waited>>

\* try_lock(), called by the thread's code: int p = threads.stop();
TryLockCall ==
    /\ At("user")
    /\ stop("try_lock")
    /\ last' = None
    /\ UNCHANGED <<thread, current_thread, thread_count, currentCount,
                   mutex, timeout_ms, elapsed, work,
                   woke, waited>>

\* try_lock: the test of state, start(p) and the return, to the caller:
\* the thread's code, lock's fast path or lock's loop
TryLockBody ==
    LET me == current_thread
        got == IsUnlocked(state)
    IN  /\ pc[me] \in {"try_lock", "lock_try1", "lock_try2"}
        /\ state' = IF got THEN 1 ELSE state
        /\ currentActive' = start(p[me])
        /\ p' = [p EXCEPT ![me] = STOPPED]
        /\ pc' = [pc EXCEPT ![me] =
                    IF got THEN "locked"
                    ELSE IF pc[me] = "try_lock" THEN "user"
                    ELSE IF pc[me] = "lock_try1" THEN "lock_begin"
                    ELSE "lock_timeout"]
        /\ last' = IF pc[me] = "try_lock"
                   THEN [op |-> "try_lock", who |-> me, ret |-> IF got THEN 1 ELSE 0,
                         was |-> state]
                   ELSE IF got
                   THEN [op |-> "lock", who |-> me, ret |-> 1, was |-> state,
                         timeout |-> timeout_ms[me],
                         elapsed |-> elapsed[me]]
                   ELSE None
        \* when lock() has returned its locals are gone
        /\ timeout_ms' = [timeout_ms EXCEPT ![me] = IF got THEN 0 ELSE @]
        /\ elapsed' = [elapsed EXCEPT ![me] = IF got THEN 0 ELSE @]
        /\ UNCHANGED <<thread, current_thread, thread_count, currentCount,
                       waitthread, waitcount, work, woke, waited>>

\* lock: uint32_t start = systick_millis_count;
LockBegin ==
    /\ At("lock_begin")
    /\ elapsed' = [elapsed EXCEPT ![current_thread] = 0]
    /\ Goto("lock_loop")
    /\ last' = None
    /\ UNCHANGED <<kernel, mutex, p, timeout_ms, work, woke, waited>>

\* lock: the loop's try_lock: int p = threads.stop();
LockLoop ==
    /\ At("lock_loop")
    /\ stop("lock_try2")
    /\ last' = None
    /\ UNCHANGED <<thread, current_thread, thread_count, currentCount,
                   mutex, timeout_ms, elapsed, work,
                   woke, waited>>

\* lock: if (timeout_ms && (systick_millis_count - start > timeout_ms)) return 0;
LockTimeout ==
    LET me == current_thread
        out == TimedOut(timeout_ms[me], elapsed[me])
    IN  /\ At("lock_timeout")
        /\ Goto(IF out THEN "user" ELSE "lock_check")
        /\ last' = IF out
                   THEN [op |-> "lock", who |-> me, ret |-> 0, was |-> state,
                         timeout |-> timeout_ms[me],
                         elapsed |-> elapsed[me]]
                   ELSE None
        \* when lock() has returned its locals are gone
        /\ timeout_ms' = [timeout_ms EXCEPT ![me] = IF out THEN 0 ELSE @]
        /\ elapsed' = [elapsed EXCEPT ![me] = IF out THEN 0 ELSE @]
        /\ UNCHANGED <<kernel, mutex, p, work, woke, waited>>

\* lock: if (waitthread==-1)
LockCheck ==
    /\ At("lock_check")
    /\ Goto(IF NoWaiter(waitthread) THEN "lock_park" ELSE "lock_yield")
    /\ last' = None
    /\ UNCHANGED <<kernel, mutex, p, timeout_ms, elapsed, work, woke, waited>>

\* lock: int p = threads.stop();
LockParkStop ==
    /\ At("lock_park")
    /\ stop("lock_suspend")
    /\ last' = None
    /\ UNCHANGED <<thread, current_thread, thread_count, currentCount,
                   mutex, timeout_ms, elapsed, work,
                   woke, waited>>

\* lock: waitthread = current_thread; waitcount = currentCount;
\*       threads.suspend(waitthread); threads.start(p);
LockPark ==
    /\ At("lock_suspend")
    /\ waitthread' = current_thread
    /\ waitcount' = currentCount
    /\ thread' = [thread EXCEPT ![current_thread].flags = SUSPENDED]
    /\ currentActive' = start(p[current_thread])
    /\ p' = [p EXCEPT ![current_thread] = STOPPED]
    /\ Goto("lock_yield")
    /\ last' = [op |-> "park", who |-> current_thread]
    /\ waited' = 0
    /\ UNCHANGED <<current_thread, thread_count, currentCount, state, timeout_ms,
                   elapsed, work, woke>>

\* lock: threads.yield(); and round the loop
LockYield ==
    /\ At("lock_yield")
    /\ context_switch_direct
    /\ Goto("lock_loop")
    /\ UNCHANGED <<thread_count, currentActive, mutex, p,
                   timeout_ms, elapsed, work, woke, waited>>

\* the protected code reads the counter
CsRead ==
    /\ At("locked")
    /\ tmp' = [tmp EXCEPT ![current_thread] = counter]
    /\ Goto("cs_write")
    /\ last' = None
    /\ UNCHANGED <<kernel, mutex, p, timeout_ms, elapsed, counter, iter,
                   woke, waited>>

\* the protected code writes the counter back, one more
CsWrite ==
    /\ At("cs_write")
    /\ counter' = tmp[current_thread] + 1
    /\ tmp' = [tmp EXCEPT ![current_thread] = 0]
    /\ iter' = [iter EXCEPT ![current_thread] = @ + 1]
    /\ Goto("cs_done")
    /\ last' = None
    /\ UNCHANGED <<kernel, mutex, p, timeout_ms, elapsed, woke, waited>>

\* unlock: int p = threads.stop();
UnlockCall ==
    /\ At("cs_done")
    /\ stop("unlock")
    /\ last' = None
    /\ UNCHANGED <<thread, current_thread, thread_count, currentCount,
                   mutex, timeout_ms, elapsed, work,
                   woke, waited>>

\* unlock: the body up to yield_and_start(), or to start(p) and the return
UnlockBody ==
    LET me == current_thread
        w == waitthread
        wake == state = 1 /\ w >= 0
    IN  /\ At("unlock")
        /\ state' = IF state = 1 THEN 0 ELSE state
        /\ IF wake
           THEN /\ thread' = [thread EXCEPT ![w].priority = waitcount,
                                            ![w].flags = RUNNING]
                /\ waitthread' = -1
                /\ woke' = w
                /\ waited' = 0
                /\ Goto("unlock_yield")
                /\ UNCHANGED currentActive
           ELSE /\ currentActive' = start(p[me])
                /\ Goto("user")
                /\ UNCHANGED <<thread, waitthread, woke, waited>>
        /\ p' = [p EXCEPT ![me] = STOPPED]
        /\ last' = [op |-> "unlock", who |-> me, was |-> state, waiter |-> w]
        /\ UNCHANGED <<current_thread, thread_count, currentCount,
                       waitcount, timeout_ms, elapsed,
                       work>>

\* unlock: threads.yield_and_start(); return 1;
\* svcall_isr sets currentActive = STARTED and switches
UnlockYield ==
    /\ At("unlock_yield")
    /\ currentActive' = STARTED
    /\ getNextThread
    /\ woke' = -1
    /\ Goto("user")
    /\ UNCHANGED waited
    /\ UNCHANGED <<thread_count, mutex, p, timeout_ms,
                   elapsed, work>>

\* ----------------------------------------------------------- Threads::wait
\* wait's test of its deadline, el being millis() - start
WaitTimedOut(t_ms, el) == t_ms # 0 /\ el > t_ms

\* wait(id, timeout_ms): unsigned int start = millis();
WaitCall(id, t_ms) ==
    /\ At("user")
    /\ wait_id' = [wait_id EXCEPT ![current_thread] = id]
    /\ timeout_ms' = [timeout_ms EXCEPT ![current_thread] = t_ms]
    /\ elapsed' = [elapsed EXCEPT ![current_thread] = 0]
    /\ Goto("wait_timeout")
    /\ last' = None
    /\ UNCHANGED <<kernel, mutex, p, work, woke, waited>>

\* what a wait() that returns leaves in last
Returned(ret, seen) ==
    [op |-> "wait", ret |-> ret, id |-> wait_id[current_thread],
     timeout |-> timeout_ms[current_thread], elapsed |-> elapsed[current_thread],
     seen |-> seen, ran |-> ran[current_thread]]

\* wait returns: its arguments and start are no more
WaitLocalsGone ==
    /\ wait_id' = [wait_id EXCEPT ![current_thread] = 0]
    /\ timeout_ms' = [timeout_ms EXCEPT ![current_thread] = 0]
    /\ elapsed' = [elapsed EXCEPT ![current_thread] = 0]

\* wait: if (timeout_ms != 0 && millis() - start > timeout_ms) return -1;
WaitTimeout ==
    /\ At("wait_timeout")
    /\ IF WaitTimedOut(timeout_ms[current_thread], elapsed[current_thread])
       THEN /\ Goto("user")
            /\ last' = Returned(-1, "none")
            /\ WaitLocalsGone
       ELSE /\ Goto("wait_read")
            /\ last' = None
            /\ UNCHANGED <<timeout_ms, elapsed, wait_id>>
    /\ UNCHANGED <<kernel, mutex, p, work, woke, waited>>

\* wait: state = thread[id].flags; if (state != RUNNING) break; and return id
WaitRead ==
    LET id == wait_id[current_thread]
        st == thread[id].flags
    IN  /\ At("wait_read")
        /\ IF st # RUNNING
           THEN /\ Goto("user")
                /\ last' = Returned(id, st)
                /\ WaitLocalsGone
           ELSE /\ Goto("wait_yield")
                /\ last' = None
                /\ UNCHANGED <<timeout_ms, elapsed, wait_id>>
        /\ UNCHANGED <<kernel, mutex, p, work, woke, waited>>

\* wait: yield(); and round the loop
WaitYield ==
    /\ At("wait_yield")
    /\ context_switch_direct
    /\ Goto("wait_timeout")
    /\ UNCHANGED <<thread_count, currentActive, mutex, p,
                   timeout_ms, elapsed, wait_id, work, woke, waited>>

\* ------------------------------------------------------------ the histories
FlagsOf(th) == [i \in Slots |-> th[i].flags]

\* at most the last n entries of s
LastN(s, n) == IF Len(s) <= n THEN s ELSE SubSeq(s, Len(s) - n + 1, Len(s))

\* selHist: emptied by a change of the flags or a boost, else one longer by
\* the slot a selection chose
SelHistStep ==
    selHist' =
        IF FlagsOf(thread') # FlagsOf(thread) \/ \E i \in Slots : thread'[i].priority # 0
        THEN <<>>
        ELSE IF last'.op = "select" THEN LastN(Append(selHist, last'.to), MAX_THREADS)
        ELSE selHist

\* The calls of scenario S4: addThread eight times, kill(3), addThread.
Scenario ==
    [k \in 1 .. 10 |-> IF k = 9 THEN [op |-> "kill", id |-> 3] ELSE [op |-> "addThread"]]

Off == <<-2>>

\* oplog: one longer by what each addThread and kill returned, while the calls
\* made so far are the first calls of Scenario; Off from the first other call
OpLogStep ==
    oplog' =
        IF last'.op \notin {"addThread", "kill"} THEN oplog
        ELSE IF oplog = Off \/ Len(oplog) = Len(Scenario) THEN Off
        ELSE IF last'.op # Scenario[Len(oplog) + 1].op THEN Off
        ELSE IF last'.op = "addThread" THEN Append(oplog, last'.ret)
        ELSE IF last'.id = Scenario[Len(oplog) + 1].id THEN Append(oplog, last'.id)
        ELSE Off

\* ------------------------------------------------- the specifications
\* The lifecycle calls, made by whichever thread runs, on the slots
\* 0 .. MaxLive that hold a thread.
Used == 1 .. MaxLive

InUse(id) == thread[id].flags # EMPTY

\* addThread is called while a slot of Used is free, MaxLive times at most
\* beyond the threads that have returned
RoomToAdd == FreeSlot(thread) \in Used /\ thread_count < MaxLive

Next ==
    /\ \/ Tick(0, 0)
       \/ Yield
       \/ (RoomToAdd /\ AddThreadStop)
       \/ AddThreadBody
       \/ \E id \in Used : InUse(id) /\ kill(id)
       \/ \E id \in Used : InUse(id) /\ suspend(id)
       \/ \E id \in Used : InUse(id) /\ restart(id)
       \/ \E id \in {0} \cup Used : InUse(id) /\ setPriority(id, Level)
       \/ DelProcessStop
       \/ DelProcessBody
    /\ UNCHANGED <<guards, waits, history>>

Spec == Init /\ [][Next]_vars

\* The scheduler on every thread table: the slots 1 .. n used (RUNNING, ENDED
\* or SUSPENDED), the slots after them never used, slot 0 RUNNING, no boost,
\* any used slot running; every step is a yield of the running thread.
IsTable(f) ==
    /\ f[0] = RUNNING
    /\ \A i \in 1 .. (MAX_THREADS - 1) :
          f[i] = EMPTY => \A j \in i .. (MAX_THREADS - 1) : f[j] = EMPTY

InitSelect ==
    /\ \E f \in [Slots -> {RUNNING, ENDED, SUSPENDED, EMPTY}] :
          /\ IsTable(f)
          /\ thread = [i \in Slots |->
                [flags |-> f[i],
                 ticks |-> IF f[i] = EMPTY THEN 0 ELSE DEFAULT_TICKS,
                 priority |-> 0]]
          /\ current_thread \in {i \in Slots : f[i] # EMPTY}
    /\ thread_count = Cardinality({i \in 1 .. (MAX_THREADS - 1) :
                                      thread[i].flags \in {RUNNING, SUSPENDED}})
    /\ currentCount = DEFAULT_TICKS
    /\ currentActive = STARTED
    /\ MutexInit
    /\ pc = [i \in Slots |-> "user"]
    /\ p = [i \in Slots |-> STOPPED]
    /\ timeout_ms = [i \in Slots |-> 0]
    /\ elapsed = [i \in Slots |-> 0]
    /\ counter = 0
    /\ tmp = [i \in Slots |-> 0]
    /\ iter = [i \in Slots |-> 0]
    /\ last = None
    /\ woke = -1
    /\ waited = 0
    /\ save_state = <<>>
    /\ outer = NoGuard
    /\ wait_id = [i \in Slots |-> 0]
    /\ ran = [i \in Slots |-> FALSE]
    /\ selHist = <<>>
    /\ oplog = <<>>

NextSelect ==
    /\ Yield
    /\ SelHistStep
    /\ UNCHANGED <<guards, waits, oplog>>

SpecSelect == InitSelect /\ [][NextSelect]_vars

\* addThread and kill on every slot, called by whichever thread runs,
\* with the history of the calls.
NextAlloc ==
    /\ \/ Tick(0, 0)
       \/ Yield
       \/ (thread_count < MaxAdds /\ AddThreadStop)
       \/ AddThreadBody
       \/ (Cardinality({i \in Slots : thread[i].flags = ENDED}) < MaxEnded
             /\ \E id \in 1 .. (MAX_THREADS - 1) : kill(id))
    /\ OpLogStep
    /\ UNCHANGED <<guards, waits, selHist>>

SpecAlloc == Init /\ [][NextAlloc]_vars

\* Every thread, the main thread too, increments the counter iters times
\* under the mutex, taking it with lock(timeout_ms), timeout_ms in 0 .. maxt,
\* or with try_lock(); the main thread adds the other threads, n of them.
ToDo(iters) == iter[current_thread] < iters

MutexSteps(n, iters, maxt, cap, wcap) ==
    \/ Tick(cap, wcap)
    \/ Yield
    \/ (current_thread = 0 /\ thread_count < n /\ AddThreadStop)
    \/ AddThreadBody
    \/ (ToDo(iters) /\ \E t_ms \in 0 .. maxt : LockCall(t_ms))
    \/ (ToDo(iters) /\ TryLockCall)
    \/ TryLockBody
    \/ LockBegin
    \/ LockLoop
    \/ LockTimeout
    \/ LockCheck
    \/ LockParkStop
    \/ LockPark
    \/ LockYield
    \/ CsRead
    \/ CsWrite
    \/ UnlockCall
    \/ UnlockBody
    \/ UnlockYield

\* the counter under lock(0) and try_lock()
NextMutex == MutexSteps(NumWorkers, MaxIter, 0, 0, 0) /\ UNCHANGED <<guards, waits, history>>

SpecMutex == Init /\ [][NextMutex]_vars

\* lock() with deadlines
NextTimed ==
    MutexSteps(NumTimed, 1, MaxTimeout, MaxTimeout + 1, 0) /\ UNCHANGED <<guards, waits, history>>

SpecTimed == Init /\ [][NextTimed]_vars

\* a slice of every thread
Round == (NumContenders + 1) * (DEFAULT_TICKS + 1)

\* lock() with deadlines, more threads, and the time a parked waiter waits
NextContend ==
    MutexSteps(NumContenders, 1, MaxTimeout, MaxTimeout + 1, MaxTimeout + Round + 1)
        /\ UNCHANGED <<guards, waits, history>>

SpecContend == Init /\ [][NextContend]_vars

\* Guards and stop() calls nested by whichever thread runs, around addThread,
\* setPriority and yield, with the tick firing throughout.
TickUnderGuard ==
    outer' = IF save_state # <<>> /\ currentActive = STOPPED /\ currentCount = 0
             THEN [outer EXCEPT !.ticked = TRUE] ELSE outer

NextGuard ==
    /\ \/ (Tick(0, 0) /\ TickUnderGuard /\ UNCHANGED save_state)
       \/ (Yield /\ UNCHANGED guards)
       \/ (thread_count < MaxAdds /\ AddThreadStop /\ UNCHANGED guards)
       \/ (AddThreadBody /\ UNCHANGED guards)
       \/ (\E id \in {0} \cup Used : InUse(id) /\ setPriority(id, Level)
                                        /\ UNCHANGED guards)
       \/ (Len(save_state) < MaxDepth /\ SuspendCtor)
       \/ (Len(save_state) < MaxDepth /\ StopCall)
       \/ Release
    /\ UNCHANGED <<waits, history>>

SpecGuard == Init /\ [][NextGuard]_vars

\* ran: for every thread inside wait(), whether its target's flags have been
\* RUNNING since the call
RanStep ==
    ran' = [i \in Slots |->
              /\ pc'[i] \in InWait
              /\ \/ (pc[i] \in InWait /\ ran[i])
                 \/ thread'[wait_id'[i]].flags = RUNNING]

\* wait()'s statements take far less than a millisecond: while the running
\* thread is inside wait(), the tick taken is the one that ends its slice
SliceEnd == pc[current_thread] \in InWait => currentCount = 0

\* wait(id, timeout_ms) called by whichever thread runs on another thread's
\* slot, among the lifecycle calls and the ticks.
NextWait ==
    /\ \/ (SliceEnd /\ Tick(MaxTimeout + 1, 0) /\ UNCHANGED wait_id)
       \/ (Yield /\ UNCHANGED wait_id)
       \/ (RoomToAdd /\ AddThreadStop /\ UNCHANGED wait_id)
       \/ (AddThreadBody /\ UNCHANGED wait_id)
       \/ (\E id \in Used : InUse(id) /\ kill(id) /\ UNCHANGED wait_id)
       \/ (\E id \in Used : InUse(id) /\ suspend(id) /\ UNCHANGED wait_id)
       \/ (\E id \in Used : InUse(id) /\ restart(id) /\ UNCHANGED wait_id)
       \/ (DelProcessStop /\ UNCHANGED wait_id)
       \/ (DelProcessBody /\ UNCHANGED wait_id)
       \/ (\E id \in Used, t_ms \in 0 .. MaxTimeout :
              InUse(id) /\ id # current_thread /\ WaitCall(id, t_ms))
       \/ WaitTimeout
       \/ WaitRead
       \/ WaitYield
    /\ RanStep
    /\ UNCHANGED <<guards, history>>

SpecWait == Init /\ [][NextWait]_vars

\* ------------------------------------------------------------------ claims
Threads(n) == 0 .. n

\* every thread has made its increments and is out of the mutex
AllDone == \A i \in Threads(NumWorkers) : iter[i] = MaxIter /\ pc[i] = "user"

\* C1: K = NumWorkers + 1 threads each increment the counter N = MaxIter
\* times under the mutex: at most one thread is between a successful lock or
\* try_lock and its unlock, and when all are done the counter is K * N.
C1_MutualExclusion ==
    /\ Cardinality({i \in Slots : pc[i] \in Holding}) <= 1
    /\ AllDone => counter = (NumWorkers + 1) * MaxIter

\* all K threads have made their N increments and the mutex is released
C1_Witness ==
    /\ AllDone
    /\ thread_count = NumWorkers
    /\ counter = (NumWorkers + 1) * MaxIter
    /\ state = 0

\* no unlock has been made yet and the mutex is taken: it has been held by
\* one thread since it was first taken
HeldThroughout == counter = 0 /\ state = 1

\* thread u has parked itself in lock() and waits to be restarted
Parked(u) == waitthread = u /\ thread[u].flags = SUSPENDED /\ pc[u] \in {"lock_yield", "lock_loop"}

\* C2: a thread in lock(t), t > 0, on a mutex another thread holds throughout
\* returns 0 once more than t milliseconds have passed, within a further time
\* slice, while scheduling is active: stated for the thread that has parked
\* itself, counting the ticks since it did, with a slice of every thread
\* allowed for its return.
C2_TimeoutReturns ==
    \A u \in Slots :
        (Parked(u) /\ timeout_ms[u] > 0 /\ HeldThroughout)
            => waited <= timeout_ms[u] + Round

\* C3: lock(timeout_ms) returns 0 only with timeout_ms # 0 and more than
\* timeout_ms milliseconds gone since lock() read its start, the caller not
\* holding the mutex; lock(0) never returns 0; and when lock returns 1 the
\* caller has set state from 0 to 1.
C3_LockReturn ==
    last.op = "lock" =>
        /\ last.ret = 0 => /\ last.timeout # 0
                           /\ last.elapsed > last.timeout
                           /\ pc[last.who] \notin Holding
        /\ last.timeout = 0 => last.ret = 1
        /\ last.ret = 1 => last.was = 0 /\ state = 1 /\ pc[last.who] \in Holding

\* lock(t), t > 0, has just returned 0
C3_Witness == last.op = "lock" /\ last.ret = 0 /\ last.timeout > 0

\* C4: unlock() on a locked mutex with a parked waiter w leaves state = 0,
\* waitthread = -1 and w RUNNING, and the next thread dispatched is w.
C4_HandOff ==
    /\ (last.op = "unlock" /\ last.was = 1 /\ last.waiter >= 0)
          => state = 0 /\ waitthread = -1 /\ thread[last.waiter].flags = RUNNING
    /\ (last.op = "select" /\ last.woke >= 0 /\ last.woke # last.from
            /\ pc[last.woke] \in InLoop)
          => current_thread = last.woke

RunningSlots == {i \in Slots : thread[i].flags = RUNNING}

\* the first RUNNING slot after slot c in cyclic order
FirstRunningAfter(c) ==
    LET d == CHOOSE d \in 1 .. MAX_THREADS :
                /\ thread[(c + d) % MAX_THREADS].flags = RUNNING
                /\ \A e \in 1 .. (d - 1) : thread[(c + e) % MAX_THREADS].flags # RUNNING
    IN  (c + d) % MAX_THREADS

NoBoost == \A i \in Slots : thread[i].priority = 0

\* C5: with N slots RUNNING, slot 0 among them, no boost and no change of
\* flags, the last N selections chose every RUNNING slot, and each selection
\* chose the first RUNNING slot after the outgoing one in cyclic order.
C5_RoundRobin ==
    (thread[0].flags = RUNNING /\ NoBoost) =>
        /\ Len(selHist) >= Cardinality(RunningSlots) =>
              \A i \in RunningSlots :
                  \E k \in (Len(selHist) - Cardinality(RunningSlots) + 1) .. Len(selHist) :
                      selHist[k] = i
        /\ last.op = "select" => last.to = FirstRunningAfter(last.from)

\* three RUNNING slots, the last slot of the table among them, so that the
\* loop wraps, and other slots in use between them; MAX_THREADS selections made
C5_Witness ==
    /\ Cardinality(RunningSlots) = 3
    /\ thread[MAX_THREADS - 1].flags = RUNNING
    /\ thread[1].flags = SUSPENDED
    /\ Len(selHist) = MAX_THREADS

\* the one slot with a boost in table th, -1 when there is none or several
OnlyBoosted(th) ==
    IF Cardinality({i \in Slots : th[i].priority # 0}) = 1
    THEN CHOOSE i \in Slots : th[i].priority # 0
    ELSE -1

\* C6: after setPriority(id, k), k # 0, on a RUNNING thread id, the next
\* selection, whatever the state of the outgoing thread, chooses id and clears
\* thread[id].priority.
C6_BoostOneShot ==
    (last.op = "select" /\ OnlyBoosted(last.th) # -1
        /\ last.th[OnlyBoosted(last.th)].flags = RUNNING)
      => /\ last.to = OnlyBoosted(last.th)
         /\ thread[OnlyBoosted(last.th)].priority = 0

\* C7: a thread selected because of its boost k gets currentCount = k.
C7_BoostBudget ==
    (last.op = "select" /\ last.boost)
      => /\ last.count = last.th[last.to].priority
         /\ currentCount = last.th[last.to].priority

\* C8: the slot a selection makes current has flags RUNNING when selected.
C8_OnlyRunning ==
    last.op = "select" => last.th[last.to].flags = RUNNING

\* C9: thread[0].flags is RUNNING in every state reached by addThread, ticks,
\* yields and the Mutex calls of any thread.
C9_SlotZeroRunning == thread[0].flags = RUNNING

\* the lowest of a set of slots
Lowest(S) == CHOOSE i \in S : \A j \in S : i <= j

\* what scenario S4's calls return: 1 .. 7, -1, then kill(3) and 3
S4Returns == <<1, 2, 3, 4, 5, 6, 7, -1, 3, 3>>

\* C10: addThread returns the lowest slot of 1 .. MAX_THREADS-1 that is EMPTY
\* or ENDED and leaves it RUNNING with priority 0 and the default ticks; with
\* no such slot it returns -1 and changes no descriptor and not thread_count.
\* Seven calls return 1 .. 7, the eighth -1, and after kill(3) the next 3.
C10_SlotAllocation ==
    /\ last.op = "addThread" =>
          LET free == {i \in 1 .. (MAX_THREADS - 1) :
                          last.th[i].flags \in {EMPTY, ENDED}}
          IN  IF free # {}
              THEN /\ last.ret = Lowest(free)
                   /\ thread[last.ret] =
                        [flags |-> RUNNING, ticks |-> DEFAULT_TICKS, priority |-> 0]
              ELSE /\ last.ret = -1
                   /\ thread = last.th
                   /\ thread_count = last.count
    /\ oplog # Off => oplog = SubSeq(S4Returns, 1, Len(oplog))

\* scenario S4 has been run to its end
C10_Witness == oplog = S4Returns /\ last.op = "addThread" /\ last.ret = 3

\* C11: addThread called with currentActive STARTED or FIRST_RUN returns,
\* with a slot or with -1, leaving scheduling active; called with STOPPED it
\* returns with STOPPED.
C11_AddThreadRestores ==
    last.op = "addThread" =>
        /\ last.active \in {STARTED, FIRST_RUN} => currentActive # STOPPED
        /\ last.active = STOPPED => currentActive = STOPPED

\* C12: while a Suspend guard is alive or a stop() is not yet undone,
\* currentActive is STOPPED, and when the outermost one is released, the
\* releases being made innermost first, currentActive is the state the
\* outermost one found.
C12_NestingRoundTrip ==
    /\ save_state # <<>> => currentActive = STOPPED
    /\ (last.op = "release" /\ save_state = <<>>) => currentActive = outer.s

\* the outermost of MaxDepth nested guards has just been released, when
\* threads had been added under them
C12_Witness ==
    /\ last.op = "release"
    /\ save_state = <<>>
    /\ outer.deep = MaxDepth
    /\ outer.s = FIRST_RUN
    /\ currentActive = FIRST_RUN
    /\ thread_count > 0

C14_EndedNotSelected ==
    last.op = "select" =>
        ~ (pc[current_thread] = "ended" /\ last.th[current_thread].flags = ENDED)

\* the slots 1 .. MAX_THREADS-1 that hold a thread
LiveSlots == {i \in 1 .. (MAX_THREADS - 1) : thread[i].flags \notin {EMPTY, ENDED}}

\* no thread is inside addThread or del_process
OutsideCritical == \A i \in Slots : pc[i] \notin {"addThread", "del_process"}

\* C15: outside a critical section, after any addThread, kill, suspend,
\* restart and thread terminations, thread_count is the number of slots,
\* the main thread's slot 0 apart, whose flags are neither EMPTY nor ENDED.
C15_ThreadCount ==
    OutsideCritical => thread_count = Cardinality(LiveSlots)

\* C16: wait(id, timeout_ms) returns id only on having read flags other than
\* RUNNING in the target's slot, and returns -1 only when timeout_ms is not 0,
\* more than timeout_ms milliseconds have passed since the call, and the
\* target's flags have been RUNNING at some moment of the call; wait(id, 0)
\* never returns -1.
C16_WaitReturn ==
    last.op = "wait" =>
        /\ last.ret = last.id => last.seen \notin {RUNNING, "none"}
        /\ last.ret # last.id =>
              /\ last.ret = -1
              /\ last.timeout # 0
              /\ last.elapsed > last.timeout
              /\ last.ran
        /\ last.timeout = 0 => last.ret = last.id

\* C17: at most one thread at a time is SUSPENDED by Mutex.lock, and it is the
\* one waitthread names.
C17_SingleWaiter ==
    /\ Cardinality({i \in Slots : thread[i].flags = SUSPENDED}) <= 1
    /\ \A i \in Slots : thread[i].flags = SUSPENDED => waitthread = i

\* every thread but w has made its increments and is out of the mutex
OthersDone(w) ==
    \A i \in Threads(NumWorkers) : i # w => iter[i] = MaxIter /\ pc[i] = "user"

\* C18: no thread is left SUSPENDED as the parked waiter of a mutex that is
\* unlocked with no thread left to lock or unlock it.
C18_NoLostWakeup ==
    \A w \in Slots :
        ~ (/\ waitthread = w
           /\ thread[w].flags = SUSPENDED
           /\ pc[w] \in InLoop
           /\ state = 0
           /\ OthersDone(w))

\* C19: addThread never returns the slot of the thread that calls it.
C19_NotCurrentSlot ==
    (last.op = "addThread" /\ last.ret # -1) => last.ret # current_thread

\* C20: while waitthread = w >= 0, thread w is inside Mutex.lock's loop.
C20_WaiterInLock ==
    waitthread >= 0 => pc[waitthread] \in InLoop

====
